---- MODULE Spec2Model ----
(***************************************************************************)
(* Model of infinity.py: a Tk dialog (InfinityApp) that collects          *)
(* multi-line text, auto-submits after a countdown, and prints the        *)
(* captured text line by line.                                            *)
(*                                                                         *)
(* The text widget is modelled as the record input_text: its character    *)
(* store (with the implicit final newline of a Tk text widget), the       *)
(* insert mark, the undo and redo stacks of the widget (undo=True,        *)
(* maxundo=-1, autoseparators on by default) and the last edit mode.      *)
(* An input event runs the bindings of the widget's binding tags in       *)
(* order: the widget's own bindings, the Text class bindings of Tk, then  *)
(* the bindings made on the toplevel (root.bind).                         *)
(*                                                                         *)
(* Time is in milliseconds.  Each pending root.after callback carries the *)
(* delay left until it is due; a callback runs when its delay is 0, and   *)
(* time passes from one due callback to the next.                         *)
(***************************************************************************)
EXTENDS Integers, Sequences, FiniteSets, TLC

\* ---------------------------------------------------------------- bounds
MaxLen == 2            \* most characters the user puts in the buffer
MaxEvents == 2         \* input events of the user in a run of Spec
MaxEditEvents == 4     \* input events of the user in a run of SpecEdit
MaxLiveEvents == 1     \* input events of the user in a run of SpecLive
HorizonSecs == 2       \* SpecEdit follows the first seconds of the countdown

\* ------------------------------------------------------ program constants
auto_submit_time == 333
TickDelay == 1000
ClearDelay == 1500
PasteDelay == 100
KeystrokeGap == 1000
TimerLabelText == "Auto-submit in: 5:30"   \* text the timer label is made with

Chars == {"a"}                     \* printable keys the user types
Clipboard == {<<"a", "\n">>}       \* clipboard contents the user pastes
Fallback == <<"r","u","n"," ","i","n","f","i","n","i","t","y",".","p","y">>
NoneVal == <<"None">>              \* Python's None in infinity_input

VARIABLES
  window,          \* "open" while root exists, "closed" after root.destroy()
  input_text,      \* the tk.Text widget
  status_label,    \* [text, foreground] of the status line
  timer_label,     \* text of the countdown label
  remaining_time,  \* self.remaining_time
  infinity_input,  \* self.infinity_input: NoneVal or the captured characters
  keystroke_age,   \* time.time() - self.last_keystroke_time, capped
  tick_after,      \* delays left of the pending update_timer callbacks
  clear_after,     \* delays left of the pending status-clear callbacks
  paste_after,     \* delays left of the pending post-paste separators
  output,          \* lines printed to standard output
  now,             \* milliseconds since the dialog opened
  events_left      \* input events the user may still produce

vars == <<window, input_text, status_label, timer_label, remaining_time,
          infinity_input, keystroke_age, tick_after, clear_after,
          paste_after, output, now, events_left>>

\* ------------------------------------------------------------- sequences
Min(S) == CHOOSE x \in S : \A y \in S : x <= y

RECURSIVE StrOf(_)
StrOf(s) == IF s = <<>> THEN "" ELSE Head(s) \o StrOf(Tail(s))

\* str.split('\n') of a character sequence: the list of lines
RECURSIVE SplitFrom(_, _)
SplitFrom(s, cur) ==
  IF s = <<>> THEN <<cur>>
  ELSE IF Head(s) = "\n" THEN <<cur>> \o SplitFrom(Tail(s), <<>>)
       ELSE SplitFrom(Tail(s), Append(cur, Head(s)))

Split(s) == SplitFrom(s, <<>>)

\* ------------------------------------------------- undo stack (tkUndo)
Sep == [type |-> "sep", at |-> 0, str |-> <<>>]

Top(stack) == stack[Len(stack)]
Pop(stack) == SubSeq(stack, 1, Len(stack) - 1)

\* TkUndoInsertSeparator: only on a non-empty stack whose top is an action
TkUndoInsertSeparator(stack) ==
  IF stack # <<>> /\ Top(stack).type # "sep" THEN Append(stack, Sep) ELSE stack

\* ------------------------------------------- text store and insert mark
\* offsets are 0-based; store[Len(store)] is the implicit final newline
RawInsert(w, at, s) ==
  [w EXCEPT !.text = SubSeq(@, 1, at) \o s \o SubSeq(@, at + 1, Len(@)),
            !.insert = IF @ >= at THEN @ + Len(s) ELSE @]

RawDelete(w, from, to) ==
  [w EXCEPT !.text = SubSeq(@, 1, from) \o SubSeq(@, to + 1, Len(@)),
            !.insert = IF @ >= to THEN @ - (to - from)
                       ELSE IF @ > from THEN from ELSE @]

\* "$w insert index chars" with undo recording
InsertChars(w, at, s, autosep) ==
  IF s = <<>> THEN w
  ELSE LET u == IF autosep /\ w.mode # "insert"
                THEN TkUndoInsertSeparator(w.undo) ELSE w.undo
           r == RawInsert(w, at, s)
       IN [r EXCEPT !.undo = Append(u, [type |-> "ins", at |-> at, str |-> s]),
                    !.redo = <<>>,
                    !.mode = "insert"]

\* "$w delete index1 index2" with undo recording; the final newline stays
DeleteIndexRange(w, from, to0, autosep) ==
  LET to == IF to0 > Len(w.text) - 1 THEN Len(w.text) - 1 ELSE to0
  IN IF from >= to THEN w
     ELSE LET u == IF autosep /\ w.mode # "delete"
                   THEN TkUndoInsertSeparator(w.undo) ELSE w.undo
              r == RawDelete(w, from, to)
          IN [r EXCEPT !.undo = Append(u, [type |-> "del", at |-> from,
                                           str |-> SubSeq(w.text, from + 1, to)]),
                       !.redo = <<>>,
                       !.mode = "delete"]

\* input_text.get("1.0", "end-1c")
GetText(w) == SubSeq(w.text, 1, Len(w.text) - 1)

\* Add a separator in the undo stack: input_text.edit_separator()
edit_separator(w) == [w EXCEPT !.undo = TkUndoInsertSeparator(@)]

\* one recorded edit, undone (revert) or redone (apply); each leaves the
\* insert mark at the place of the change
RevertAtom(w, e) ==
  IF e.type = "ins"
  THEN [RawDelete(w, e.at, e.at + Len(e.str)) EXCEPT !.insert = e.at]
  ELSE [RawInsert(w, e.at, e.str) EXCEPT !.insert = e.at + Len(e.str)]

ApplyAtom(w, e) ==
  IF e.type = "ins"
  THEN [RawInsert(w, e.at, e.str) EXCEPT !.insert = e.at + Len(e.str)]
  ELSE [RawDelete(w, e.at, e.at + Len(e.str)) EXCEPT !.insert = e.at]

\* pop and revert actions down to (and including) the next separator
RECURSIVE RevertGroup(_)
RevertGroup(w) ==
  IF w.undo = <<>> THEN w
  ELSE LET e == Top(w.undo)
       IN IF e.type = "sep" THEN [w EXCEPT !.undo = Pop(@)]
          ELSE RevertGroup([RevertAtom(w, e) EXCEPT !.undo = Pop(@),
                                                    !.redo = Append(@, e)])

RECURSIVE ApplyGroup(_)
ApplyGroup(w) ==
  IF w.redo = <<>> THEN w
  ELSE LET e == Top(w.redo)
       IN IF e.type = "sep" THEN [w EXCEPT !.redo = Pop(@)]
          ELSE ApplyGroup([ApplyAtom(w, e) EXCEPT !.redo = Pop(@),
                                                  !.undo = Append(@, e)])

\* input_text.edit_undo(): ok = FALSE is the TclError "nothing to undo"
edit_undo(w) ==
  LET u0 == TkUndoInsertSeparator(w.undo)
      r0 == TkUndoInsertSeparator(w.redo)
  IN IF u0 = <<>>
     THEN [ok |-> FALSE, w |-> [w EXCEPT !.redo = r0]]
     ELSE LET u1 == IF Top(u0).type = "sep" THEN Pop(u0) ELSE u0
              g == RevertGroup([w EXCEPT !.undo = u1, !.redo = r0])
          IN [ok |-> TRUE,
              w |-> [g EXCEPT !.redo = TkUndoInsertSeparator(@)]]

\* input_text.edit_redo(): ok = FALSE is the TclError "nothing to redo"
edit_redo(w) ==
  LET u0 == TkUndoInsertSeparator(w.undo)
  IN IF w.redo = <<>>
     THEN [ok |-> FALSE, w |-> [w EXCEPT !.undo = u0]]
     ELSE LET r1 == IF Top(w.redo).type = "sep" THEN Pop(w.redo) ELSE w.redo
              g == ApplyGroup([w EXCEPT !.undo = u0, !.redo = r1])
          IN [ok |-> TRUE,
              w |-> [g EXCEPT !.undo = TkUndoInsertSeparator(@)]]

\* ------------------------------------------------ Text class bindings
\* tk::TextInsert: "$w insert insert $s"
TextInsert(w, s) == InsertChars(w, w.insert, s, TRUE)

\* bind Text <Return>: insert a newline, then a separator
ClassReturn(w) == edit_separator(TextInsert(w, <<"\n">>))

\* bind Text <BackSpace>: delete the character before the insert mark
ClassBackSpace(w) ==
  IF w.insert # 0 THEN DeleteIndexRange(w, w.insert - 1, w.insert, TRUE) ELSE w

\* bind Text <<Undo>>: separator, caught "edit undo", separator
ClassUndo(w) == edit_separator(edit_undo(edit_separator(w)).w)

\* bind Text <<Redo>>: caught "edit redo"
ClassRedo(w) == edit_redo(w).w

\* bind Text <<Paste>> (tk_textPaste): the clipboard goes in as one group
ClassPaste(w, s) ==
  edit_separator(InsertChars(edit_separator(w), w.insert, s, FALSE))

\* ------------------------------------------------------- the application
\* on_key_press: a separator when the previous key-press is over 1 s ago;
\* age = current_time - self.last_keystroke_time
on_key_press(w, age) == IF age > KeystrokeGap THEN edit_separator(w) ELSE w

\* undo_action whose except branch shows no message
undo_action_silent(w) == [w |-> edit_undo(w).w, message |-> ""]

\* undo_action(): edit_undo, and the message when it raises TclError
undo_action(w) ==
  LET r == edit_undo(w)
  IN [w |-> r.w, message |-> IF r.ok THEN "" ELSE "Nothing to undo"]

\* redo_action()
redo_action(w) ==
  LET r == edit_redo(w)
  IN [w |-> r.w, message |-> IF r.ok THEN "" ELSE "Nothing to redo"]

\* submit() that captures the text and leaves the window open
submit_no_destroy(w) == [infinity_input |-> GetText(w), window |-> "open"]

\* submit(): the captured text and the destroyed root window
submit(w) == [infinity_input |-> GetText(w), window |-> "closed"]

\* update_timer that inserts the fallback without deleting the buffer
TimeoutTextKeep(w) == InsertChars(w, 0, Fallback, TRUE)

\* the text update_timer leaves in the widget when the countdown expired
TimeoutText(w) ==
  InsertChars(DeleteIndexRange(w, 0, Len(w.text), TRUE), 0, Fallback, TRUE)

\* {seconds} instead of {seconds:02d}
TwoDigitsNoPad(n) == ToString(n)

TwoDigits(n) == ToString(n \div 10) \o ToString(n % 10)

\* f"Auto-submit in: {minutes}:{seconds:02d}"
TimerText(t) ==
  "Auto-submit in: " \o ToString(t \div 60) \o ":" \o TwoDigits(t % 60)

\* what the module prints once get_input() has returned
OutputFor(result) ==
  <<"Prompt:">> \o
    (IF result # NoneVal /\ result # <<>>
     THEN LET lines == Split(result)
          IN [i \in 1..Len(lines) |-> StrOf(lines[i])]
     ELSE <<"(no input provided)">>)

\* ------------------------- what the bindings of one key-press do to the
\* widget, in the order of the binding tags: widget, class Text, toplevel
OnKeyChar(w, age, c) == TextInsert(on_key_press(w, age), <<c>>)

OnBackSpace(w, age) == ClassBackSpace(on_key_press(w, age))

\* Return and Shift+Return: the class binding of <Return> runs for both
OnReturn(w, age) == ClassReturn(on_key_press(w, age))

\* without the <Shift-Return> binding the <Return> binding matches both
RootReturnBindingPlain(shift) == "submit"

\* the toplevel binding chosen for the key: <Shift-Return> is more specific
\* than <Return> and runs "lambda event: None"
RootReturnBinding(shift) == IF shift THEN "none" ELSE "submit"

\* Control-v: on_key_press for the Control key, then the <<Paste>> bindings
OnPaste(w, age, s) == ClassPaste(on_key_press(w, age), s)

\* Control-z.  class = TRUE: Tk binds <<Undo>> to the key in class Text
\* (x11, win32), and that binding undoes before undo_action does
OnUndoKey(w, age, class) ==
  LET w1 == on_key_press(w, age)
  IN undo_action(IF class THEN ClassUndo(w1) ELSE w1)

\* Control-y / Control-Shift-Z.  class = TRUE: the one of the two that Tk
\* binds to <<Redo>> in class Text (Control-y on win32, Control-Z on x11)
OnRedoKey(w, age, class) ==
  LET w1 == on_key_press(w, age)
  IN redo_action(IF class THEN ClassRedo(w1) ELSE w1)

Message(m) == [text |-> m, foreground |-> "red"]
NoMessage == [text |-> "", foreground |-> "green"]

BufLen == Len(input_text.text) - 1

\* a main loop that keeps dispatching after root.destroy()
MainloopRunsAlways == TRUE

\* root.mainloop() dispatches events and callbacks while the root exists
MainloopRuns == window = "open"

\* ---------------------------------------------------------- input events
\* a key-press that changes the widget only
Typed(w) ==
  /\ MainloopRuns /\ events_left > 0
  /\ input_text' = w
  /\ keystroke_age' = 0
  /\ events_left' = events_left - 1
  /\ UNCHANGED <<window, status_label, timer_label, remaining_time,
                 infinity_input, tick_after, clear_after, paste_after,
                 output, now>>

KeyChar(c) ==
  /\ BufLen < MaxLen
  /\ Typed(OnKeyChar(input_text, keystroke_age, c))

KeyBackSpace == Typed(OnBackSpace(input_text, keystroke_age))

KeyReturn(shift) ==
  LET w == OnReturn(input_text, keystroke_age)
  IN IF RootReturnBinding(shift) = "submit"
     THEN /\ MainloopRuns /\ events_left > 0
          /\ input_text' = w
          /\ infinity_input' = submit(w).infinity_input
          /\ window' = submit(w).window
          /\ keystroke_age' = 0
          /\ events_left' = events_left - 1
          /\ UNCHANGED <<status_label, timer_label, remaining_time,
                         tick_after, clear_after, paste_after, output, now>>
     ELSE /\ BufLen < MaxLen
          /\ Typed(w)

\* the Submit button: command=self.submit
ClickSubmit ==
  /\ MainloopRuns /\ events_left > 0
  /\ infinity_input' = submit(input_text).infinity_input
  /\ window' = submit(input_text).window
  /\ events_left' = events_left - 1
  /\ UNCHANGED <<input_text, status_label, timer_label, remaining_time,
                 keystroke_age, tick_after, clear_after, paste_after,
                 output, now>>

\* the close button of the window manager: no handler is installed, Tk
\* destroys the root window and infinity_input stays None
WMClose ==
  /\ MainloopRuns /\ events_left > 0
  /\ window' = "closed"
  /\ events_left' = events_left - 1
  /\ UNCHANGED <<input_text, status_label, timer_label, remaining_time,
                 infinity_input, keystroke_age, tick_after, clear_after,
                 paste_after, output, now>>

\* a click in the text: Tk moves the insert mark, the <ButtonRelease-1>
\* binding adds a separator
Click(pos) ==
  /\ MainloopRuns /\ events_left > 0
  /\ input_text' = edit_separator([input_text EXCEPT !.insert = pos])
  /\ events_left' = events_left - 1
  /\ UNCHANGED <<window, status_label, timer_label, remaining_time,
                 infinity_input, keystroke_age, tick_after, clear_after,
                 paste_after, output, now>>

\* handle_paste schedules the separator, the class binding pastes
KeyPaste(s) ==
  /\ MainloopRuns /\ events_left > 0
  /\ BufLen + Len(s) <= MaxLen
  /\ input_text' = OnPaste(input_text, keystroke_age, s)
  /\ paste_after' = Append(paste_after, PasteDelay)
  /\ keystroke_age' = 0
  /\ events_left' = events_left - 1
  /\ UNCHANGED <<window, status_label, timer_label, remaining_time,
                 infinity_input, tick_after, clear_after, output, now>>

\* the effect of undo_action / redo_action on the dialog
History(r) ==
  /\ MainloopRuns /\ events_left > 0
  /\ input_text' = r.w
  /\ IF r.message = ""
     THEN UNCHANGED <<status_label, clear_after>>
     ELSE /\ status_label' = Message(r.message)
          /\ clear_after' = Append(clear_after, ClearDelay)
  /\ keystroke_age' = 0
  /\ events_left' = events_left - 1
  /\ UNCHANGED <<window, timer_label, remaining_time, infinity_input,
                 tick_after, paste_after, output, now>>

KeyUndo(class) == History(OnUndoKey(input_text, keystroke_age, class))

KeyRedo(class) == History(OnRedoKey(input_text, keystroke_age, class))

\* ------------------------------------------------- scheduled callbacks
\* a tick that forgets to schedule the next one
after_update_timer_never(pending) == pending

\* a tick that schedules the next one twice
after_update_timer_twice(pending) ==
  Append(Append(pending, TickDelay), TickDelay)

\* self.root.after(1000, self.update_timer): one more pending tick
after_update_timer(pending) == Append(pending, TickDelay)

\* update_timer() run by root.after(1000, self.update_timer)
update_timer ==
  /\ MainloopRuns
  /\ tick_after # <<>>
  /\ Head(tick_after) = 0
  /\ timer_label' = TimerText(remaining_time)
  /\ remaining_time' = remaining_time - 1
  /\ IF remaining_time - 1 < 0
     THEN LET w == TimeoutText(input_text)
          IN /\ input_text' = w
             /\ infinity_input' = submit(w).infinity_input
             /\ window' = submit(w).window
             /\ tick_after' = Tail(tick_after)
     ELSE /\ tick_after' = after_update_timer(Tail(tick_after))
          /\ UNCHANGED <<input_text, infinity_input, window>>
  /\ UNCHANGED <<status_label, keystroke_age, clear_after, paste_after,
                 output, now, events_left>>

\* lambda: self.status_label.config(text="", foreground="green")
ClearStatus ==
  /\ MainloopRuns
  /\ clear_after # <<>> /\ Head(clear_after) = 0
  /\ status_label' = NoMessage
  /\ clear_after' = Tail(clear_after)
  /\ UNCHANGED <<window, input_text, timer_label, remaining_time,
                 infinity_input, keystroke_age, tick_after, paste_after,
                 output, now, events_left>>

\* the edit_separator scheduled by handle_paste
PasteSeparator ==
  /\ MainloopRuns
  /\ paste_after # <<>> /\ Head(paste_after) = 0
  /\ input_text' = edit_separator(input_text)
  /\ paste_after' = Tail(paste_after)
  /\ UNCHANGED <<window, status_label, timer_label, remaining_time,
                 infinity_input, keystroke_age, tick_after, clear_after,
                 output, now, events_left>>

\* --------------------------------------------------------------- time
Range(s) == {s[i] : i \in 1..Len(s)}
Dues == Range(tick_after) \cup Range(clear_after) \cup Range(paste_after)

\* time passes up to the instant at which the next callback is due (the
\* tick at the latest); input events happen at these instants, before or
\* after the callbacks that are due
Advance ==
  /\ MainloopRuns
  /\ Dues # {}
  /\ \A d \in Dues : d > 0
  /\ LET d == Min(Dues)
     IN /\ now' = now + d
        /\ tick_after' = [i \in 1..Len(tick_after) |-> tick_after[i] - d]
        /\ clear_after' = [i \in 1..Len(clear_after) |-> clear_after[i] - d]
        /\ paste_after' = [i \in 1..Len(paste_after) |-> paste_after[i] - d]
        /\ keystroke_age' = IF keystroke_age + d > KeystrokeGap
                            THEN KeystrokeGap + 1 ELSE keystroke_age + d
  /\ UNCHANGED <<window, input_text, status_label, timer_label,
                 remaining_time, infinity_input, output, events_left>>

\* ------------------------------------------------- module-level output
PrintOutput ==
  /\ ~MainloopRuns
  /\ output = <<>>
  /\ output' = OutputFor(infinity_input)
  /\ UNCHANGED <<window, input_text, status_label, timer_label,
                 remaining_time, infinity_input, keystroke_age, tick_after,
                 clear_after, paste_after, now, events_left>>

\* ---------------------------------------------------- specifications
\* the state when __init__ returns: the widgets are built, edit_separator
\* has run on the empty stack, update_timer() has run once
Constructed ==
  /\ window = "open"
  /\ input_text = [text |-> <<"\n">>, insert |-> 0, undo |-> <<>>,
                   redo |-> <<>>, mode |-> "other"]
  /\ status_label = NoMessage
  /\ timer_label = TimerText(auto_submit_time)
  /\ remaining_time = auto_submit_time - 1
  /\ infinity_input = NoneVal
  /\ keystroke_age = KeystrokeGap + 1
  /\ tick_after = <<TickDelay>>
  /\ clear_after = <<>>
  /\ paste_after = <<>>
  /\ output = <<>>
  /\ now = 0

Init == Constructed /\ events_left = MaxEvents

Next ==
  \/ \E c \in Chars : KeyChar(c)
  \/ KeyBackSpace
  \/ \E shift \in BOOLEAN : KeyReturn(shift)
  \/ ClickSubmit
  \/ WMClose
  \/ \E pos \in 0..BufLen : Click(pos)
  \/ \E s \in Clipboard : KeyPaste(s)
  \/ \E class \in BOOLEAN : KeyUndo(class)
  \/ \E class \in BOOLEAN : KeyRedo(class)
  \/ update_timer
  \/ ClearStatus
  \/ PasteSeparator
  \/ Advance
  \/ PrintOutput

Spec == Init /\ [][Next]_vars

\* ---- the first HorizonSecs seconds of the dialog, with more input events
InitEdit == Constructed /\ events_left = MaxEditEvents

AdvanceEdit ==
  /\ remaining_time > auto_submit_time - 1 - HorizonSecs
  /\ Advance

NextEdit ==
  \/ \E c \in Chars : KeyChar(c)
  \/ KeyBackSpace
  \/ \E shift \in BOOLEAN : KeyReturn(shift)
  \/ ClickSubmit
  \/ WMClose
  \/ \E pos \in 0..BufLen : Click(pos)
  \/ \E s \in Clipboard : KeyPaste(s)
  \/ \E class \in BOOLEAN : KeyUndo(class)
  \/ \E class \in BOOLEAN : KeyRedo(class)
  \/ update_timer
  \/ ClearStatus
  \/ PasteSeparator
  \/ AdvanceEdit
  \/ PrintOutput

SpecEdit == InitEdit /\ [][NextEdit]_vars

\* ---- the whole countdown under the scheduling of root.mainloop(): time
\* passes, and a callback that is due is run; the user is free to act or not
InitLive == Constructed /\ events_left = MaxLiveEvents

Mainloop ==
  /\ WF_vars(Advance)
  /\ WF_vars(update_timer)
  /\ WF_vars(ClearStatus)
  /\ WF_vars(PasteSeparator)

SpecLive == InitLive /\ [][Next]_vars /\ Mainloop

\* ==================================================================
\* Properties
\* ==================================================================
Lines(t) == [i \in 1..Len(Split(t)) |-> StrOf(Split(t)[i])]
ManualSubmit == KeyReturn(FALSE) \/ ClickSubmit
Printed == output # <<>>

\* C1: for every text entered and then submitted by the Submit button or
\* the Return key, the printed output is "Prompt:" followed by exactly the
\* lines of the entered text.
C1_OutputReproducesInput ==
  /\ [](Printed => output = OutputFor(infinity_input))
  /\ [][ManualSubmit /\ GetText(input_text) # <<>>
          => OutputFor(infinity_input')
               = <<"Prompt:">> \o Lines(GetText(input_text))]_vars

\* C2: submitting an empty buffer, by the Submit button or by Return,
\* prints exactly "Prompt:" and "(no input provided)"; that line is printed
\* exactly when nothing was captured (result unset or empty).
C2_EmptySubmit ==
  /\ [](Printed => ((infinity_input \in {NoneVal, <<>>})
                      <=> output = <<"Prompt:", "(no input provided)">>))
  /\ [][ManualSubmit /\ GetText(input_text) = <<>>
          => OutputFor(infinity_input')
               = <<"Prompt:", "(no input provided)">>]_vars

\* C3: when the countdown has gone below zero the window is closed, the
\* buffer and the captured result are exactly the fallback string, whatever
\* the buffer held, and the output after "Prompt:" is that string.
C3_TimeoutFallback ==
  remaining_time < 0 =>
    /\ window = "closed"
    /\ SubSeq(input_text.text, 1, Len(input_text.text) - 1) = Fallback
    /\ infinity_input = Fallback
    /\ Printed => output = <<"Prompt:", "run infinity.py">>

\* the countdown expired on a buffer that held text, and the output is out
C3_Witness ==
  /\ remaining_time < 0
  /\ output = <<"Prompt:", "run infinity.py">>
  /\ \E i \in 1..Len(input_text.undo) : input_text.undo[i].type = "del"

\* C4 as stated: the result is unset while the window is open, and in
\* every state where the window is closed it is set and equals the buffer
\* content at closing.
C4_SetWhenClosed ==
  /\ window = "open" => infinity_input = NoneVal
  /\ window = "closed" =>
       /\ infinity_input # NoneVal
       /\ infinity_input = SubSeq(input_text.text, 1, Len(input_text.text) - 1)

\* C4 amended: the result is unset while the window is open; it is assigned
\* at most once, in the step that closes the window, and never changed
\* afterwards; when the window is closed the result is either still unset
\* or equals the buffer content at closing.
C4_SetAtMostOnce ==
  /\ [](window = "open" => infinity_input = NoneVal)
  /\ [](window = "closed" /\ infinity_input # NoneVal =>
          infinity_input = SubSeq(input_text.text, 1, Len(input_text.text) - 1))
  /\ [][infinity_input' # infinity_input =>
          infinity_input = NoneVal /\ window = "open" /\ window' = "closed"]_vars

\* a submit closed the window with text captured, and the output is out
C4_Witness ==
  /\ window = "closed"
  /\ infinity_input \notin {NoneVal, <<>>}
  /\ Printed

\* C5: undo (redo) with no undo (redo) history changes neither the buffer,
\* the countdown nor the captured result; it sets the status line to
\* "Nothing to undo" ("Nothing to redo") and schedules one clear.
QuietFailure(m) ==
  /\ input_text'.text = input_text.text
  /\ UNCHANGED <<remaining_time, timer_label, infinity_input, window,
                 tick_after, paste_after, output>>
  /\ status_label' = [text |-> m, foreground |-> "red"]
  /\ clear_after' = Append(clear_after, ClearDelay)

C5_EmptyHistory ==
  /\ [][(\E class \in BOOLEAN : KeyUndo(class)) /\ input_text.undo = <<>>
          => QuietFailure("Nothing to undo")]_vars
  /\ [][(\E class \in BOOLEAN : KeyRedo(class)) /\ input_text.redo = <<>>
          => QuietFailure("Nothing to redo")]_vars

\* a redo failed on a buffer that holds text; its clear is pending
C5_Witness ==
  /\ status_label.text = "Nothing to redo"
  /\ BufLen > 0
  /\ clear_after # <<>>

\* C6: from any buffer, one keystroke (typed after more than 1 s without a
\* key-press, so that it is a checkpoint group of its own) followed at once
\* by the undo key gives the buffer from before the keystroke, and the redo
\* key after that undo gives the buffer with the keystroke.
C6_UndoRedoKeystroke ==
  MainloopRuns /\ BufLen < MaxLen /\ keystroke_age > KeystrokeGap =>
    \A c \in Chars :
      LET typed == OnKeyChar(input_text, keystroke_age, c)
          undone == OnUndoKey(typed, 0, TRUE).w
          redone == OnRedoKey(undone, 0, TRUE).w
      IN /\ GetText(undone) = GetText(input_text)
         /\ GetText(redone) = GetText(typed)

\* C7: Shift+Return never submits: the window stays open, the result stays
\* unset and the buffer gains one newline at the insert mark; of the input
\* events only plain Return and the Submit button capture a result.
C7_ShiftReturn ==
  /\ [][KeyReturn(TRUE) =>
          /\ window' = "open"
          /\ infinity_input' = NoneVal
          /\ input_text'.text =
               SubSeq(input_text.text, 1, input_text.insert) \o <<"\n">> \o
               SubSeq(input_text.text, input_text.insert + 1,
                      Len(input_text.text))]_vars
  /\ [][events_left' # events_left /\ infinity_input' # infinity_input
          => ManualSubmit]_vars

\* the only input event so far was Shift+Return
C7_Witness ==
  /\ window = "open"
  /\ events_left = MaxEvents - 1
  /\ GetText(input_text) = <<"\n">>

MessageAge == ClearDelay - clear_after[Len(clear_after)]

C9_MessageLasts ==
  [][status_label.text # "" /\ status_label'.text = ""
       => MessageAge >= ClearDelay]_vars

\* C10: the countdown goes from 332 down to -1 in steps of 1, one step per
\* second; each tick shows M:SS of the value before its decrement; the
\* timeout is the tick from 0 to -1, 333 s after the dialog opened.
Digit == <<"0", "1", "2", "3", "4", "5", "6", "7", "8", "9">>
LabelOf(t) ==
  "Auto-submit in: " \o Digit[(t \div 60) + 1] \o ":" \o
  Digit[((t % 60) \div 10) + 1] \o Digit[((t % 60) % 10) + 1]

C11_EventuallyClosed ==
  /\ <>(window = "closed")
  /\ [][remaining_time' <= remaining_time]_vars
  /\ [][remaining_time' # remaining_time => update_timer]_vars
  /\ [](window = "open" =>
          /\ tick_after # <<>>
          /\ now + tick_after[1] =
               (auto_submit_time - remaining_time) * TickDelay
          /\ now <= auto_submit_time * TickDelay)

\* the user acted, and the window was closed by the countdown
C11_Witness ==
  /\ window = "closed"
  /\ events_left = 0
  /\ remaining_time = -1
  /\ now = auto_submit_time * TickDelay

\* C12: a key-press puts a checkpoint under its own edit exactly when the
\* previous key-press is more than 1 s ago, and every key-press restarts
\* that time; so when two bursts were typed with more than 1 s between
\* them, one press of the undo key leaves the text of the first burst, and
\* a submit without undo prints "Prompt:" and the lines of both bursts.
IsTypedAt(e, at) ==
  e.type = "ins" /\ e.at = at /\ Len(e.str) = 1 /\ e.str[1] \in Chars

\* the undo stack holds two bursts of typed characters around the
\* checkpoint at index k, and typing them is all the user did: the
\* checkpoint is the one of a key-press more than 1 s after the previous one
BurstsAround(k) ==
  LET u == input_text.undo
  IN /\ u[k] = Sep
     /\ \A i \in 1..(k - 1) : IsTypedAt(u[i], i - 1)
     /\ \A i \in (k + 1)..Len(u) : IsTypedAt(u[i], i - 2)
     /\ BufLen = Len(u) - 1
     /\ MaxEditEvents - events_left = Len(u) - 1
     /\ input_text.redo = <<>>
     /\ input_text.mode = "insert"

TwoBursts == \E k \in 2..(Len(input_text.undo) - 1) : BurstsAround(k)

FirstBurst ==
  LET k == CHOOSE k \in 2..(Len(input_text.undo) - 1) : BurstsAround(k)
  IN SubSeq(GetText(input_text), 1, k - 1)

KeystrokePolicy ==
  [][(\E c \in Chars : KeyChar(c)) =>
       /\ keystroke_age' = 0
       /\ (input_text.undo # <<>> /\ Top(input_text.undo).type = "ins"
             /\ input_text.mode = "insert")
          => LET n == Len(input_text.undo)
             IN IF keystroke_age > KeystrokeGap
                THEN /\ Len(input_text'.undo) = n + 2
                     /\ input_text'.undo[n + 1] = Sep
                     /\ Top(input_text'.undo).type = "ins"
                ELSE /\ Len(input_text'.undo) = n + 1
                     /\ Top(input_text'.undo).type = "ins"]_vars

BurstUndo ==
  [][(TwoBursts /\ \E class \in BOOLEAN : KeyUndo(class))
       => GetText(input_text') = FirstBurst]_vars

BurstSubmit ==
  [][(TwoBursts /\ ManualSubmit)
       => OutputFor(infinity_input')
            = <<"Prompt:">> \o Lines(GetText(input_text))]_vars

C12_KeystrokeCheckpoints == KeystrokePolicy /\ BurstUndo /\ BurstSubmit

\* C13: when the dialog has been constructed and becomes interactive, the
\* countdown label reads "Auto-submit in: 5:30", the text the label was
\* created with, while the countdown is the one of 333 s that has just
\* started.
C13_DisplayedFromFiveThirty ==
  (window = "open" /\ now = 0)
    => /\ remaining_time = auto_submit_time - 1
       /\ timer_label = TimerLabelText

\* C14 as stated: at most one tick is pending; exactly one while the window
\* is open, none once the window is closed, by the timeout or otherwise.
C14_NoTickAfterClose ==
  /\ Len(tick_after) <= 1
  /\ (window = "open" => Len(tick_after) = 1)
  /\ (window = "closed" => tick_after = <<>>)

\* C14: at most one tick is pending in every state: exactly one while the
\* window is open, none after the tick of the timeout, and after a close by
\* the user the one that was pending, which is never run.  Only a tick
\* replaces the pending tick and only the passing of time changes its
\* delay; the tick that takes the countdown down from r runs 333 - r
\* seconds after the start, so no second sees two decrements.
C14_AtMostOneTick ==
  /\ [](Len(tick_after) <= 1)
  /\ [](window = "open" => Len(tick_after) = 1 /\ remaining_time >= 0)
  /\ [](remaining_time < 0 => window = "closed" /\ tick_after = <<>>)
  /\ [](window = "closed" /\ remaining_time >= 0 => Len(tick_after) = 1)
  /\ [][tick_after' # tick_after => update_timer \/ Advance]_vars
  /\ [][window = "closed" => tick_after' = tick_after]_vars
  /\ [][remaining_time' # remaining_time =>
          /\ update_timer
          /\ remaining_time' = remaining_time - 1
          /\ now = (auto_submit_time - remaining_time) * TickDelay]_vars

\* the user closed the window after some ticks: the last tick scheduled is
\* still pending
C14_Witness ==
  /\ window = "closed"
  /\ remaining_time \in 0..(auto_submit_time - 2)
  /\ Len(tick_after) = 1
  /\ tick_after[1] \in 0..TickDelay

====
